---------------------------- MODULE Spec2Model ----------------------------
(***************************************************************************)
(* image-dedup-cli (src/src/main.rs): main fans find_duplicates out over   *)
(* the directory arguments with rayon; find_duplicates globs the           *)
(* directory, hashes every candidate, groups by fingerprint, renames every *)
(* member of a group of two or more into <dir>/duplicates and removes that *)
(* directory again when it is empty.                                       *)
(*                                                                         *)
(* The filesystem is the only state shared by the tasks.  Each filesystem  *)
(* call of the code (glob, image::open, create_dir_all, rename, read_dir,  *)
(* remove_dir, eprintln of a returned error) is one atomic step of the     *)
(* task that makes it; the task-local computation between two calls is     *)
(* folded into the step of the call it follows.  Two refinements:          *)
(* create_dir_all is two steps when its mkdir fails (it then looks up      *)
(* whether the path is a directory), and fs::metadata is read in the step  *)
(* of the image::open it follows, file_size never being read afterwards.   *)
(***************************************************************************)
EXTENDS Integers, Sequences, FiniteSets, TLC

VARIABLES
    args,      \* main.rs:20   Args.directories
    fs,        \* the filesystem: one record per directory path
    fs0,       \* the filesystem as it was when main started (history)
    task,      \* one record of locals per par_iter item (index into args)
    mainPc,    \* position of main
    mainLog    \* what main itself wrote to stderr

vars == <<args, fs, fs0, task, mainPc, mainLog>>

---------------------------------------------------------------------------
(* Bounds *)

\* Length of the directory list given on the command line.
MaxArgs == 2

\* Number of distinct pictures (perceptual classes) the image files show.
NumPics == 2

---------------------------------------------------------------------------
(* Paths and file contents *)

Dirs == {"D1", "D2"}

\* File names a directory may hold, in the order glob yields them (the glob
\* crate sorts the entries of a directory alphabetically).
NameOrder == <<"a.png", "b.jpg", "c.gif", "d.PNG", "e">>

Names == {NameOrder[i] : i \in 1..Len(NameOrder)}

\* Path::extension of each name ("" where there is none).
Extension(name) ==
    CASE name = "a.png" -> "png"
      [] name = "b.jpg" -> "jpg"
      [] name = "c.gif" -> "gif"
      [] name = "d.PNG" -> "PNG"
      [] OTHER -> ""

\* main.rs:13
VALID_EXTENSIONS == {"png", "jpeg", "jpg", "gif"}

\* Whether the last path component matches the glob pattern "*.*".
MatchesGlob(name) == name # "e"

ValidNames == {n \in Names : MatchesGlob(n) /\ Extension(n) \in VALID_EXTENSIONS}

\* A file's content: 0 is a file image::open cannot decode, k >= 1 a file
\* that decodes to picture k.
Contents == 0..NumPics

\* A directory argument is one of:
\*   ok          exists, readable and writable
\*   missing     does not exist (its parent is writable)
\*   unlistable  exists, writable and searchable but not readable
\*   readonly    exists and readable, not writable
\*   badpattern  its text is not a valid glob pattern (e.g. holds "[")
DirKinds == {"ok", "missing", "unlistable", "readonly", "badpattern"}

PatternOk(kind) == kind # "badpattern"
Listable(kind) == kind \in {"ok", "readonly"}
Writable(kind) == kind \in {"ok", "unlistable"}

EmptyFiles == [n \in {} |-> 0]

\* The state of one directory: its kind, its files (name -> content), what
\* sits at <dir>/duplicates ("none", "dir" or a regular "file") and the
\* entries of that directory.
NoDir == [kind |-> "missing", files |-> EmptyFiles, dup |-> "none", dupFiles |-> EmptyFiles]

Without(f, name) == [n \in (DOMAIN f) \ {name} |-> f[n]]
With(f, name, c) == [n \in (DOMAIN f) \cup {name} |-> IF n = name THEN c ELSE f[n]]

---------------------------------------------------------------------------
(* Fingerprint: main.rs:50-67 *)

\* main.rs:50  HasherConfig::with_bytes_type::<[u8; 8]>
HASH_BYTES == 8

\* The perceptual hash of a decoded picture: HASH_BYTES bytes.  The hasher is
\* an external crate; all the code relies on is that it is a function of the
\* picture.
HashImage(pic) == [i \in 1..HASH_BYTES |-> (pic * i) % 256]

RECURSIVE BitOr(_, _)
BitOr(a, b) ==
    IF a = 0 THEN b
    ELSE IF b = 0 THEN a
    ELSE (IF a % 2 = 1 \/ b % 2 = 1 THEN 1 ELSE 0) + 2 * BitOr(a \div 2, b \div 2)

\* A u64 is kept as its eight base-256 digits, least significant first:
\* digit idx+1 holds bits 8*idx .. 8*idx+7.
ZeroU64 == [i \in 1..8 |-> 0]

\* hash_num |= (byte as u64) << (8 * idx)
OrShifted(num, byte, idx) ==
    IF idx + 1 \in DOMAIN num
    THEN [num EXCEPT ![idx + 1] = BitOr(num[idx + 1], byte)]
    ELSE num   \* shifted out of the 64 bits

RECURSIVE FoldHash(_, _, _)
FoldHash(bytes, idx, num) ==
    IF idx >= Len(bytes) THEN num
    ELSE FoldHash(bytes, idx + 1, OrShifted(num, bytes[idx + 1], idx))

HashNum(bytes) == FoldHash(bytes, 0, ZeroU64)

---------------------------------------------------------------------------
(* find_duplicates, one filesystem call at a time: main.rs:30-123 *)

\* The locals of one call of find_duplicates(directory), before its first step.
\* "moved" is history: the names this call renamed successfully.
NewTask(directory) ==
    [pc |-> "glob", dir |-> directory, images |-> <<>>, idx |-> 0,
     hashes |-> [k \in {} |-> <<>>], todo |-> <<>>, duplicate_path |-> <<>>,
     result |-> "none", log |-> <<>>, moved |-> {}]

\* Path::file_name: the last component.
FileName(path) == path[Len(path)]

\* PathBuf::push and PathBuf::pop
Push(path, name) == Append(path, name)
Pop(path) == SubSeq(path, 1, Len(path) - 1)

\* fs::metadata(path).len(), 0 when the file is not there (main.rs:72-75).
\* A file's length is a function of its content.
FileSize(f, name) == IF name \in DOMAIN f.files THEN f.files[name] + 1 ELSE 0

\* main.rs:33-47  glob(dir + "/*.*"), dropping unreadable entries and every
\* path whose extension is not in VALID_EXTENSIONS.  A directory that does
\* not exist or cannot be read yields no path and no error; only a malformed
\* pattern is an Err.
GlobImages(f) ==
    IF Listable(f.kind)
    THEN SelectSeq(NameOrder,
             LAMBDA n : /\ n \in DOMAIN f.files
                        /\ MatchesGlob(n)
                        /\ Extension(n) \in VALID_EXTENSIONS)
    ELSE <<>>

DoGlob(f, l) ==
    IF ~PatternOk(f.kind)
    THEN [fs |-> f, loc |-> [l EXCEPT !.result = "Err", !.pc = "report"]]
    ELSE LET imgs == GlobImages(f) IN
         [fs |-> f,
          loc |-> [l EXCEPT !.images = imgs, !.idx = 1,
                            !.pc = IF imgs = <<>> THEN "mkdir" ELSE "hash"]]

\* Mutant: hashes.insert(hash_num, vec![img_prop]), which drops the records
\* the group already held.
EntryPush_Replace(hashes, key, prop) ==
    [k \in (DOMAIN hashes) \cup {key} |-> IF k = key THEN <<prop>> ELSE hashes[k]]

\* main.rs:81  hashes.entry(hash_num).or_default().push(img_prop)
EntryPush(hashes, key, prop) ==
    IF key \in DOMAIN hashes
    THEN [hashes EXCEPT ![key] = Append(@, prop)]
    ELSE [k \in (DOMAIN hashes) \cup {key} |->
             IF k = key THEN <<prop>> ELSE hashes[k]]

\* image::open succeeds on a file that is there and decodes.
CanOpen(f, name) == name \in DOMAIN f.files /\ f.files[name] # 0

\* main.rs:55-82  one iteration of the hashing loop.
DoHash(f, l) ==
    LET image == l.images[l.idx]
        next == IF l.idx = Len(l.images) THEN "mkdir" ELSE "hash"
    IN  IF ~CanOpen(f, image)
        THEN [fs |-> f,
              loc |-> [l EXCEPT !.log = Append(@, <<"SkipOpen", image>>),
                                !.idx = @ + 1, !.pc = next]]
        ELSE LET hash_num == HashNum(HashImage(f.files[image]))
                 img_prop == [path |-> <<l.dir, image>>,
                              file_size |-> FileSize(f, image)]
             IN  [fs |-> f,
                  loc |-> [l EXCEPT !.hashes = EntryPush(@, hash_num, img_prop),
                                    !.idx = @ + 1, !.pc = next]]

\* Mutant: .filter(|entries| entries.len() > 0)
IsDuplicateSet_NonEmpty(entries) == Len(entries) > 0

\* main.rs:90  .filter(|entries| entries.len() > 1)
IsDuplicateSet(entries) == Len(entries) > 1

DupKeys(hashes) == {k \in DOMAIN hashes : IsDuplicateSet(hashes[k])}

\* The orders in which HashMap::values may yield the duplicate sets.
RECURSIVE Orders(_)
Orders(keys) ==
    IF keys = {} THEN {<<>>}
    ELSE UNION {{<<k>> \o o : o \in Orders(keys \ {k})} : k \in keys}

RECURSIVE Flatten(_, _)
Flatten(hashes, ord) ==
    IF ord = <<>> THEN <<>>
    ELSE hashes[Head(ord)] \o Flatten(hashes, Tail(ord))

\* fs::create_dir_all(<dir>/duplicates) makes the directory, and <dir> with
\* it when that is missing; this needs nothing at the name yet and a writable
\* <dir>.
CanMkdir(f) == f.dup = "none" /\ (Writable(f.kind) \/ f.kind = "missing")

CreateDirAll(f) ==
    [f EXCEPT !.dup = "dir", !.kind = IF @ = "missing" THEN "ok" ELSE @]

\* main.rs:88-92  the records the two nested for_each will visit, the
\* duplicate sets being walked in the order `ord`.
StartMoves(l, ord) ==
    LET work == Flatten(l.hashes, ord) IN
    [l EXCEPT !.todo = work, !.pc = IF work = <<>> THEN "readdir" ELSE "move"]

\* Mutant: remove_dir_all before create_dir_all, a fresh quarantine directory
\* for every call.
DoCreateDir_Fresh(f, l, ord) ==
    LET l1 == [l EXCEPT !.duplicate_path = <<l.dir, "duplicates">>] IN
    IF CanMkdir(f) \/ (f.dup = "dir" /\ Writable(f.kind))
    THEN [fs |-> [CreateDirAll(f) EXCEPT !.dupFiles = EmptyFiles],
          loc |-> StartMoves(l1, ord)]
    ELSE [fs |-> f, loc |-> [l1 EXCEPT !.pc = "isdir"]]

\* main.rs:84-87  build duplicate_path and call create_dir_all.  When the
\* directory cannot be made, create_dir_all still returns Ok if the path is
\* a directory, which it looks up in a second call.
DoCreateDir(f, l, ord) ==
    LET l1 == [l EXCEPT !.duplicate_path = <<l.dir, "duplicates">>] IN
    IF CanMkdir(f)
    THEN [fs |-> CreateDirAll(f), loc |-> StartMoves(l1, ord)]
    ELSE [fs |-> f, loc |-> [l1 EXCEPT !.pc = "isdir"]]

\* main.rs:87  the is_dir lookup of create_dir_all, and the `?`.
DoIsDir(f, l, ord) ==
    IF f.dup = "dir"
    THEN [fs |-> f, loc |-> StartMoves(l, ord)]
    ELSE [fs |-> f, loc |-> [l EXCEPT !.result = "Err", !.pc = "report"]]

\* fs::rename(<dir>/name, <dir>/duplicates/dst): needs the source file, the
\* destination directory and write access to <dir>.  A regular file already
\* at the destination is replaced.
CanRename(f, name) ==
    /\ name \in DOMAIN f.files
    /\ f.dup = "dir"
    /\ Writable(f.kind)

Rename(f, name, dst) ==
    [f EXCEPT !.dupFiles = With(@, dst, f.files[name]),
              !.files = Without(@, name)]

\* main.rs:92-102  one iteration of the inner for_each.
DoMove(f, l) ==
    LET e == Head(l.todo)
        name == FileName(e.path)
        dest == Push(l.duplicate_path, name)
        rest == Tail(l.todo)
        next == IF rest = <<>> THEN "readdir" ELSE "move"
    IN  IF CanRename(f, name)
        THEN [fs |-> Rename(f, name, FileName(dest)),
              loc |-> [l EXCEPT !.duplicate_path = Pop(dest), !.todo = rest,
                                !.moved = @ \cup {name}, !.pc = next]]
        ELSE [fs |-> f,
              loc |-> [l EXCEPT !.duplicate_path = Pop(dest), !.todo = rest,
                                !.log = Append(@, <<"FailedMove", name>>),
                                !.pc = next]]

\* main.rs:106-107, 122  read_dir(duplicate_path) and count its entries.
DoReadDir(f, l) ==
    IF f.dup = "dir" /\ Cardinality(DOMAIN f.dupFiles) = 0
    THEN [fs |-> f, loc |-> [l EXCEPT !.pc = "rmdir"]]
    ELSE [fs |-> f, loc |-> [l EXCEPT !.result = "Ok", !.pc = "done"]]

\* fs::remove_dir: the directory must be there, empty, and <dir> writable.
CanRemoveDir(f) ==
    /\ f.dup = "dir"
    /\ DOMAIN f.dupFiles = {}
    /\ Writable(f.kind)

\* Mutant: the notice is printed without the directory being removed.
DoRemoveDir_KeepsDir(f, l) ==
    [fs |-> f,
     loc |-> [l EXCEPT !.log = Append(@, <<"NoDuplicates", l.dir>>),
                       !.result = "Ok", !.pc = "done"]]

\* Mutant: the directory is removed without the notice being printed.
DoRemoveDir_Silent(f, l) ==
    IF CanRemoveDir(f)
    THEN [fs |-> [f EXCEPT !.dup = "none"],
          loc |-> [l EXCEPT !.result = "Ok", !.pc = "done"]]
    ELSE [fs |-> f,
          loc |-> [l EXCEPT !.log = Append(@, <<"FailedRemove", l.dir>>),
                            !.result = "Ok", !.pc = "done"]]

\* main.rs:108-117, 122
DoRemoveDir(f, l) ==
    IF CanRemoveDir(f)
    THEN [fs |-> [f EXCEPT !.dup = "none"],
          loc |-> [l EXCEPT !.log = Append(@, <<"NoDuplicates", l.dir>>),
                            !.result = "Ok", !.pc = "done"]]
    ELSE [fs |-> f,
          loc |-> [l EXCEPT !.log = Append(@, <<"FailedRemove", l.dir>>),
                            !.result = "Ok", !.pc = "done"]]

\* main.rs:134-135  .filter_map(Result::err).for_each(|err| eprintln!(..))
DoReport(f, l) ==
    [fs |-> f, loc |-> [l EXCEPT !.log = Append(@, <<"Error", l.dir>>),
                                 !.pc = "done"]]

\* The next step of a call, by its position.
Step(f, l, ord) ==
    CASE l.pc = "glob" -> DoGlob(f, l)
      [] l.pc = "hash" -> DoHash(f, l)
      [] l.pc = "mkdir" -> DoCreateDir(f, l, ord)
      [] l.pc = "isdir" -> DoIsDir(f, l, ord)
      [] l.pc = "move" -> DoMove(f, l)
      [] l.pc = "readdir" -> DoReadDir(f, l)
      [] l.pc = "rmdir" -> DoRemoveDir(f, l)
      [] l.pc = "report" -> DoReport(f, l)
      [] OTHER -> [fs |-> f, loc |-> l]

\* find_duplicates(directory) run to its end with nothing else touching the
\* filesystem, from directory state f.
RECURSIVE RunAlone(_, _)
RunAlone(f, l) ==
    IF l.pc = "done" THEN [fs |-> f, loc |-> l]
    ELSE LET r == Step(f, l, CHOOSE o \in Orders(DupKeys(l.hashes)) : TRUE)
         IN  RunAlone(r.fs, r.loc)

Alone(f, directory) == RunAlone(f, NewTask(directory))

---------------------------------------------------------------------------
(* main: main.rs:125-137 *)

Tasks == 1..Len(args)

\* What a step of item t does to the shared state.
Apply(t, r) ==
    /\ fs' = [fs EXCEPT ![task[t].dir] = r.fs]
    /\ task' = [task EXCEPT ![t] = r.loc]
    /\ UNCHANGED <<args, fs0, mainPc, mainLog>>

Running(t, pc) == mainPc = "run" /\ task[t].pc = pc

\* Mutant: main without the is_empty test.
MainStart_NoEmptyCheck ==
    /\ mainPc = "start"
    /\ mainPc' = "run"
    /\ UNCHANGED <<args, fs, fs0, task, mainLog>>

\* main.rs:128-130
MainStart ==
    /\ mainPc = "start"
    /\ IF args = <<>>
       THEN /\ mainLog' = Append(mainLog, "MissingArgument")
            /\ mainPc' = "exit"
       ELSE /\ mainPc' = "run"
            /\ UNCHANGED mainLog
    /\ UNCHANGED <<args, fs, fs0, task>>

GlobStep(t) == Running(t, "glob") /\ Apply(t, DoGlob(fs[task[t].dir], task[t]))

HashStep(t) == Running(t, "hash") /\ Apply(t, DoHash(fs[task[t].dir], task[t]))

CreateDirStep(t) ==
    /\ Running(t, "mkdir")
    /\ \E ord \in Orders(DupKeys(task[t].hashes)) :
           Apply(t, DoCreateDir(fs[task[t].dir], task[t], ord))

IsDirStep(t) ==
    /\ Running(t, "isdir")
    /\ \E ord \in Orders(DupKeys(task[t].hashes)) :
           Apply(t, DoIsDir(fs[task[t].dir], task[t], ord))

MoveStep(t) == Running(t, "move") /\ Apply(t, DoMove(fs[task[t].dir], task[t]))

ReadDirStep(t) == Running(t, "readdir") /\ Apply(t, DoReadDir(fs[task[t].dir], task[t]))

RemoveDirStep(t) == Running(t, "rmdir") /\ Apply(t, DoRemoveDir(fs[task[t].dir], task[t]))

\* Mutant: the first error reported ends the whole iteration, the other
\* items being abandoned where they are.
ReportStep_Abort(t) ==
    /\ Running(t, "report")
    /\ task' = [u \in Tasks |->
                   IF u = t THEN DoReport(fs[task[t].dir], task[t]).loc
                   ELSE [task[u] EXCEPT !.pc = "done"]]
    /\ UNCHANGED <<args, fs, fs0, mainPc, mainLog>>

ReportStep(t) == Running(t, "report") /\ Apply(t, DoReport(fs[task[t].dir], task[t]))

\* Mutant: for_each returns as soon as one item has been consumed.
AnyDone == \E t \in Tasks : task[t].pc = "done"

\* main.rs:131-136  for_each returns once every item has been consumed.
AllDone == \A t \in Tasks : task[t].pc = "done"

MainJoin ==
    /\ mainPc = "run"
    /\ AllDone
    /\ mainPc' = "exit"
    /\ UNCHANGED <<args, fs, fs0, task, mainLog>>

Next ==
    \/ MainStart
    \/ \E t \in Tasks : GlobStep(t)
    \/ \E t \in Tasks : HashStep(t)
    \/ \E t \in Tasks : CreateDirStep(t)
    \/ \E t \in Tasks : IsDirStep(t)
    \/ \E t \in Tasks : MoveStep(t)
    \/ \E t \in Tasks : ReadDirStep(t)
    \/ \E t \in Tasks : RemoveDirStep(t)
    \/ \E t \in Tasks : ReportStep(t)
    \/ MainJoin

---------------------------------------------------------------------------
(* Initial states *)

\* The directory lists: every sequence of at most MaxArgs directories.
RECURSIVE SeqsUpTo(_, _)
SeqsUpTo(S, n) ==
    IF n = 0 THEN {<<>>}
    ELSE LET shorter == SeqsUpTo(S, n - 1) IN
         shorter \cup {Append(s, x) : s \in shorter, x \in S}

\* Every assignment of contents to a subset of `names`.
FileMaps(names, contents) ==
    UNION {[present -> contents] : present \in SUBSET names}

\* Files a directory may start with: files with `contents` under some of
\* the names `valid`, and possibly some of the names `others`, which the
\* scanner must ignore.
StartFiles(valid, contents, others) ==
    {[n \in (DOMAIN a) \cup b |-> IF n \in DOMAIN a THEN a[n] ELSE 1] :
        a \in FileMaps(valid, contents), b \in SUBSET others}

\* What may sit at <dir>/duplicates at the start: nothing, a regular file, or
\* a directory holding undecodable leftovers of an earlier run.
StartDups ==
    {[dup |-> "none", dupFiles |-> EmptyFiles], [dup |-> "file", dupFiles |-> EmptyFiles]}
    \cup {[dup |-> "dir", dupFiles |-> m] : m \in FileMaps(ValidNames, {0})}

DirStates(files, dups) ==
    {NoDir}
    \cup {[kind |-> "badpattern", files |-> EmptyFiles, dup |-> "none", dupFiles |-> EmptyFiles]}
    \cup {[kind |-> "unlistable", files |-> EmptyFiles, dup |-> d.dup, dupFiles |-> d.dupFiles] :
             d \in dups}
    \cup {[kind |-> k, files |-> fl, dup |-> d.dup, dupFiles |-> d.dupFiles] :
             k \in {"ok", "readonly"}, fl \in files, d \in dups}

InitWith(lists, states) ==
    /\ args \in lists
    /\ \E st \in [{args[i] : i \in 1..Len(args)} -> states] :
           fs = [d \in Dirs |-> IF d \in DOMAIN st THEN st[d] ELSE NoDir]
    /\ fs0 = fs
    /\ task = [t \in 1..Len(args) |-> NewTask(args[t])]
    /\ mainPc = "start"
    /\ mainLog = <<>>

\* One run of find_duplicates at a time, over every directory state.
Init ==
    InitWith(SeqsUpTo(Dirs, 1),
             DirStates(StartFiles(ValidNames, Contents, Names \ ValidNames), StartDups))

Spec == Init /\ [][Next]_vars

\* The parallel runs of main over a directory list.  Each directory holds at
\* most two candidates, undecodable or showing the same picture, and has no
\* duplicates entry yet.
MainNames == {"a.png", "b.jpg"}

InitMain ==
    InitWith(SeqsUpTo(Dirs, MaxArgs),
             DirStates(StartFiles(MainNames, {0, 1}, {}),
                       {[dup |-> "none", dupFiles |-> EmptyFiles]}))

SpecMain == InitMain /\ [][Next]_vars

---------------------------------------------------------------------------
(* Vocabulary of the properties *)

Done(t) == task[t].pc = "done"

\* The directory of item t, now and when main started.
DirNow(t) == fs[task[t].dir]
DirThen(t) == fs0[task[t].dir]

Logged(t, what) == \E i \in 1..Len(task[t].log) : task[t].log[i][1] = what

\* <dir>/duplicates was absent, or a directory with no entry, at the start.
NoLeftovers(f) ==
    \/ f.dup = "none"
    \/ f.dup = "dir" /\ DOMAIN f.dupFiles = {}

\* The file that was <dir>/name at the start is now <dir>/duplicates/name.
InQuarantine(t, name) ==
    /\ name \notin DOMAIN DirNow(t).files
    /\ name \in DOMAIN DirNow(t).dupFiles
    /\ DirNow(t).dupFiles[name] = DirThen(t).files[name]

\* The file that was <dir>/name at the start is still there.
InPlace(t, name) ==
    /\ name \in DOMAIN DirNow(t).files
    /\ DirNow(t).files[name] = DirThen(t).files[name]

\* Every group of the call holds one record.
AllDistinct(t) == \A k \in DOMAIN task[t].hashes : Len(task[t].hashes[k]) = 1

---------------------------------------------------------------------------
(* C1 *)

\* C1: whenever a move is attempted while <dir>/duplicates/<file name> is
\* already there, the move fails: neither the source nor the file at the
\* destination changes, a failure is logged and the loop goes on.
C1_CollisionMoveFails ==
    [][\A t \in Tasks :
          ( /\ task[t].pc = "move"
            /\ task'[t] # task[t]
            /\ FileName(Head(task[t].todo).path) \in DOMAIN DirNow(t).dupFiles )
          => /\ fs' = fs
             /\ task'[t].moved = task[t].moved
             /\ task'[t].todo = Tail(task[t].todo)]_vars

---------------------------------------------------------------------------
(* C2 *)

\* C2: a call on a directory that does not exist or cannot be listed ends in
\* Err, which main reports; it prints no "No duplicates found" and leaves
\* the filesystem as it was.
C2_UnlistableIsFailure ==
    \A t \in Tasks :
        (Done(t) /\ ~Listable(DirThen(t).kind))
        => /\ task[t].result = "Err"
           /\ Logged(t, "Error")
           /\ ~Logged(t, "NoDuplicates")
           /\ DirNow(t) = DirThen(t)

---------------------------------------------------------------------------
(* C3 *)

\* C3 as stated: whatever was at <dir>/duplicates before, a call that moved
\* no file leaves no directory <dir>/duplicates behind.
C3_Original ==
    \A t \in Tasks :
        (Done(t) /\ task[t].moved = {}) => DirNow(t).dup # "dir"

\* C3 amended: a call that moved no file leaves no directory <dir>/duplicates
\* behind, provided that directory was absent or empty before the call and
\* its removal did not fail.
C3_QuarantineCleanup ==
    \A t \in Tasks :
        ( /\ Done(t)
          /\ task[t].moved = {}
          /\ NoLeftovers(DirThen(t))
          /\ ~Logged(t, "FailedRemove") )
        => DirNow(t).dup # "dir"

\* A call that hashed images, moved none, and removed the empty directory
\* that was there before it.
C3_Witness ==
    \E t \in Tasks :
        /\ Done(t)
        /\ task[t].moved = {}
        /\ DOMAIN task[t].hashes # {}
        /\ DirThen(t).dup = "dir"
        /\ DirNow(t).dup = "none"

---------------------------------------------------------------------------
(* C5 *)

\* C5: in a call whose create_dir_all and renames all succeeded, a hashed
\* file is in <dir>/duplicates exactly if its group holds two records or
\* more, and a file whose group holds one record is where it was.
C5_ExactlyDuplicateSetsMoved ==
    \A t \in Tasks :
        (Done(t) /\ task[t].result = "Ok" /\ ~Logged(t, "FailedMove"))
        => \A k \in DOMAIN task[t].hashes :
             \A i \in 1..Len(task[t].hashes[k]) :
                LET name == FileName(task[t].hashes[k][i].path) IN
                /\ InQuarantine(t, name) <=> Len(task[t].hashes[k]) >= 2
                /\ Len(task[t].hashes[k]) = 1 => InPlace(t, name)

\* A finished call with a group of two, which it moved, and a group of one.
C5_Witness ==
    \E t \in Tasks :
        /\ Done(t)
        /\ task[t].result = "Ok"
        /\ ~Logged(t, "FailedMove")
        /\ Cardinality(task[t].moved) = 2
        /\ \E k \in DOMAIN task[t].hashes : Len(task[t].hashes[k]) = 1

---------------------------------------------------------------------------
(* C6 *)

\* C6: with no directory given, main writes the missing-argument message
\* once, never starts the parallel iteration, and leaves the filesystem as
\* it was.
C6_EmptyArgsUsageOnly ==
    args = <<>>
    => /\ fs = fs0
       /\ task = <<>>
       /\ mainPc # "run"
       /\ mainPc = "start" => mainLog = <<>>
       /\ mainPc = "exit" => mainLog = <<"MissingArgument">>

C6_Witness == args = <<>> /\ mainPc = "exit" /\ Len(mainLog) = 1

---------------------------------------------------------------------------
(* C7 *)

\* The call of item t has returned.
Returned(t) == task[t].pc \in {"report", "done"}

---------------------------------------------------------------------------
(* C8 *)

\* C8 as stated: after a call whose hashed images all have distinct
\* fingerprints there is no directory <dir>/duplicates and "No duplicates
\* found" was printed, whatever was there before and whether or not the
\* removal succeeded.
C8_Original ==
    \A t \in Tasks :
        (Done(t) /\ AllDistinct(t))
        => /\ DirNow(t).dup # "dir"
           /\ Logged(t, "NoDuplicates")

\* C8 amended: the same, provided <dir>/duplicates was absent or empty
\* before the call and both creating and removing it succeeded.
C8_NoDuplicateReport ==
    \A t \in Tasks :
        ( /\ Done(t)
          /\ AllDistinct(t)
          /\ NoLeftovers(DirThen(t))
          /\ task[t].result = "Ok"
          /\ ~Logged(t, "FailedRemove") )
        => /\ DirNow(t).dup = "none"
           /\ Logged(t, "NoDuplicates")

\* A finished call over two images of distinct fingerprints that printed the
\* notice.
C8_Witness ==
    \E t \in Tasks :
        /\ Done(t)
        /\ AllDistinct(t)
        /\ Cardinality(DOMAIN task[t].hashes) >= 2
        /\ Logged(t, "NoDuplicates")
        /\ DirNow(t).dup = "none"

---------------------------------------------------------------------------
(* C9 *)

\* The places <<k, i>> at which the candidate `name` is recorded.
PlacesOf(t, name) ==
    {p \in UNION {{<<k, i>> : i \in 1..Len(task[t].hashes[k])} : k \in DOMAIN task[t].hashes} :
        task[t].hashes[p[1]][p[2]].path = <<task[t].dir, name>>}

\* Position of a recorded path in the scan order.
ScanIndex(t, path) == CHOOSE i \in 1..Len(task[t].images) : task[t].images[i] = FileName(path)

\* C9: at every point of a call, each candidate visited so far that decodes
\* is recorded once, in the group of its own fingerprint, each group is in
\* scan order, each candidate that does not decode is recorded nowhere, and
\* once the loop is left every candidate has been visited.
C9_Partition ==
    \A t \in Tasks :
        LET l == task[t] IN
        /\ \A i \in 1..Len(l.images) :
              LET name == l.images[i]
                  c == DirThen(t).files[name]
              IN  IF i < l.idx /\ c # 0
                  THEN /\ Cardinality(PlacesOf(t, name)) = 1
                       /\ \A p \in PlacesOf(t, name) : p[1] = HashNum(HashImage(c))
                  ELSE PlacesOf(t, name) = {}
        /\ \A k \in DOMAIN l.hashes :
              \A i, j \in 1..Len(l.hashes[k]) :
                 i < j => ScanIndex(t, l.hashes[k][i].path) < ScanIndex(t, l.hashes[k][j].path)
        /\ l.pc \in {"mkdir", "isdir", "move", "readdir", "rmdir"} => l.idx = Len(l.images) + 1

\* The loop is over, one candidate was skipped and two share a group.
C9_Witness ==
    \E t \in Tasks :
        /\ task[t].pc = "mkdir"
        /\ Logged(t, "SkipOpen")
        /\ \E k \in DOMAIN task[t].hashes : Len(task[t].hashes[k]) = 2

---------------------------------------------------------------------------
(* C4 *)

\* Item t is at a position from which one of its steps can be taken.
CanStep(t) ==
    /\ task[t].pc \in {"glob", "hash", "mkdir", "isdir", "move", "readdir", "rmdir", "report"}
    /\ task[t].pc = "hash" => task[t].idx \in 1..Len(task[t].images)
    /\ task[t].pc = "move" => task[t].todo # <<>>

ListedOnce(t) == \A u \in Tasks : args[u] = args[t] => u = t

Messages(log) == {log[i] : i \in 1..Len(log)}

\* The outcome of item t is that of find_duplicates run alone on the
\* directory as it was at the start.
SameAsAlone(t) ==
    LET r == Alone(DirThen(t), task[t].dir) IN
    /\ DirNow(t) = r.fs
    /\ task[t].result = r.loc.result
    /\ task[t].moved = r.loc.moved
    /\ Messages(task[t].log) = Messages(r.loc.log)

\* C4: while main runs, an unfinished item can always take its next step,
\* whatever happened to the other items; and once main has returned, every
\* directory listed once next to a directory whose call failed has the
\* filesystem state, result and messages of a run on its own.
C4_DirectoryIsolation ==
    \A t \in Tasks :
        /\ (mainPc = "run" /\ ~Done(t)) => CanStep(t)
        /\ ( /\ mainPc = "exit"
             /\ ListedOnce(t)
             /\ \E u \in Tasks : u # t /\ task[u].result = "Err" )
           => Done(t) /\ SameAsAlone(t)

\* main has returned; one call failed at its directory and the call on the
\* other directory moved a duplicate set.
C4_Witness ==
    /\ mainPc = "exit"
    /\ \E t, u \in Tasks :
          /\ args[t] # args[u]
          /\ task[u].result = "Err"
          /\ Cardinality(task[t].moved) = 2
          /\ SameAsAlone(t)

---------------------------------------------------------------------------
(* C10 *)

Listed == {args[i] : i \in 1..Len(args)}

\* Every file that was in directory d at the start is, unchanged, at exactly
\* one of its original path and <d>/duplicates/<file name>.
Conserved(d) ==
    \A n \in DOMAIN fs0[d].files :
        LET here == n \in DOMAIN fs[d].files /\ fs[d].files[n] = fs0[d].files[n]
            there == /\ fs[d].dup = "dir"
                     /\ n \in DOMAIN fs[d].dupFiles
                     /\ fs[d].dupFiles[n] = fs0[d].files[n]
        IN  /\ here \/ there
            /\ ~(n \in DOMAIN fs[d].files /\ n \in DOMAIN fs[d].dupFiles)

\* C10: for a listed directory without a duplicates entry at the start,
\* however often it is listed and however the items interleave, no file is
\* ever lost or doubled, and once main has returned the directory is in the
\* state a single call on it produces.
C10_NoFileLost ==
    \A d \in Listed :
        fs0[d].dup = "none"
        => /\ Conserved(d)
           /\ mainPc = "exit" => fs[d] = Alone(fs0[d], d).fs

\* main has returned from a run that listed one directory twice, and each of
\* the two calls moved one file of the same duplicate set.
C10_Witness ==
    /\ mainPc = "exit"
    /\ \E t, u \in Tasks :
          /\ t # u
          /\ args[t] = args[u]
          /\ task[t].moved # {}
          /\ task[u].moved # {}

=============================================================================
